---- MODULE Spec2Model ----
(***************************************************************************)
(* Model of umami.py: one run of the Streamlit script that reads a race     *)
(* entry table and a place-rate table, blends the scores into a            *)
(* probability per entrant and derives expected values and payouts.        *)
(*                                                                         *)
(* Column and bet-type names are written in ASCII:                         *)
(*   "name" = 馬名, "odds" = オッズ, "win" = 単勝, "winodds" = 単勝オッズ,  *)
(*   "placeodds" = 複勝オッズ, "rate" = 複勝率,                              *)
(*   bet types "tan" = 単勝, "fuku" = 複勝, "umaren" = 馬連, "wide" = ワイド *)
(*                                                                         *)
(* A float is an extended rational: a finite fraction n/d in lowest terms, *)
(* +inf, -inf or NaN.  Rounding error of binary floating point is not      *)
(* modelled; division by zero, infinities and NaN follow IEEE 754 as       *)
(* numpy and Python apply them.                                            *)
(***************************************************************************)
EXTENDS Integers, Sequences, FiniteSets, TLC

(* ------------------------------------------------------------------ *)
(* Bounds of the model                                                 *)
(* ------------------------------------------------------------------ *)
MaxLines == 2
MaxBetSteps == 2
MaxNames == 4

(* ------------------------------------------------------------------ *)
(* Floats and cells                                                    *)
(* ------------------------------------------------------------------ *)
Abs(i) == IF i < 0 THEN -i ELSE i

Sgn(i) == IF i < 0 THEN -1 ELSE IF i > 0 THEN 1 ELSE 0

RECURSIVE Gcd(_, _)
Gcd(a, b) == IF b = 0 THEN a ELSE Gcd(b, a % b)

\* a cell of a table: k is "fin" (number n/d), "inf" (sign n), "nan"
\* (empty cell / missing marker) or "text" (the string s)
Cell(k, s, n, d) == [k |-> k, s |-> s, n |-> n, d |-> d]

NaN == Cell("nan", "", 0, 1)

Inf(sign) == Cell("inf", "", sign, 1)

Text(s) == Cell("text", s, 0, 1)

\* the fraction n/d (d # 0) in lowest terms with a positive denominator
Frac(n, d) ==
    LET g == Gcd(Abs(n), Abs(d))
    IN  Cell("fin", "", (Sgn(d) * n) \div g, Abs(d) \div g)

Num(i) == Frac(i, 1)

Zero == Num(0)

IsNaN(x) == x.k = "nan"

IsFin(x) == x.k = "fin"

IsZero(x) == x.k = "fin" /\ x.n = 0

FSign(x) == Sgn(x.n)

FAdd(x, y) ==
    IF IsNaN(x) \/ IsNaN(y) THEN NaN
    ELSE IF x.k = "inf" /\ y.k = "inf" THEN (IF x.n = y.n THEN x ELSE NaN)
    ELSE IF x.k = "inf" THEN x
    ELSE IF y.k = "inf" THEN y
    ELSE Frac(x.n * y.d + y.n * x.d, x.d * y.d)

FMul(x, y) ==
    IF IsNaN(x) \/ IsNaN(y) THEN NaN
    ELSE IF x.k = "inf" \/ y.k = "inf"
         THEN (IF IsZero(x) \/ IsZero(y) THEN NaN ELSE Inf(FSign(x) * FSign(y)))
    ELSE Frac(x.n * y.n, x.d * y.d)

\* float division without a trap: x/0 is +-inf, 0/0 and inf/inf are NaN
FDiv(x, y) ==
    IF IsNaN(x) \/ IsNaN(y) THEN NaN
    ELSE IF y.k = "inf" THEN (IF x.k = "inf" THEN NaN ELSE Zero)
    ELSE IF IsZero(y) THEN (IF IsZero(x) THEN NaN ELSE Inf(FSign(x)))
    ELSE IF x.k = "inf" THEN Inf(FSign(x) * FSign(y))
    ELSE Frac(x.n * y.d, x.d * y.n)

\* x > y; every comparison with NaN is false
FGt(x, y) ==
    IF IsNaN(x) \/ IsNaN(y) THEN FALSE
    ELSE IF x.k = "inf" THEN x.n = 1 /\ y # x
    ELSE IF y.k = "inf" THEN y.n = -1
    ELSE x.n * y.d > y.n * x.d

FGe(x, y) == FGt(x, y) \/ (~IsNaN(x) /\ x = y)

\* pd.to_numeric(..., errors="coerce"): text that is no number becomes NaN
ToNumeric(c) == IF c.k = "text" THEN NaN ELSE c

\* Series.fillna(v)
FillNa(c, v) == IF IsNaN(c) THEN v ELSE c

\* Series.sum(): NaN entries are skipped, the empty sum is 0
RECURSIVE SeriesSum(_)
SeriesSum(s) ==
    IF s = <<>> THEN Zero
    ELSE LET h == Head(s)
         IN  IF IsNaN(h) THEN SeriesSum(Tail(s)) ELSE FAdd(h, SeriesSum(Tail(s)))

Map1(Op(_), s) == [i \in 1..Len(s) |-> Op(s[i])]


\* DataFrame/Series values: a table is a function from column names to
\* columns, a column is a sequence of cells.  Unbound stands for a name
\* that has no value (never assigned, or a parse that raised).
Unbound == [c \in {} |-> <<>>]

WithCol(t, c, v) == [x \in (DOMAIN t) \cup {c} |-> IF x = c THEN v ELSE t[x]]

NRows(t) == Len(t[CHOOSE c \in DOMAIN t : TRUE])

(* ------------------------------------------------------------------ *)
(* Pure functions of the script                                        *)
(* ------------------------------------------------------------------ *)
\* normalize with "total >= 0" for "total > 0"
normalizeGe(series) ==
    LET total == SeriesSum(series)
    IN  IF FGe(total, Zero) THEN [i \in 1..Len(series) |-> FDiv(series[i], total)]
        ELSE series

\* normalize(series), lines 28-30
normalize(series) ==
    LET total == SeriesSum(series)
    IN  IF FGt(total, Zero) THEN [i \in 1..Len(series) |-> FDiv(series[i], total)]
        ELSE series

\* round(x, 2) of line 97 for a finite x.  The only ties among the
\* arguments are +-0.025, whose doubles lie beyond the tie away from zero
\* (round(0.025, 2) = 0.03), so ties go away from zero.
Round2(x) ==
    LET q == (200 * Abs(x.n) + x.d) \div (2 * x.d)
    IN  Frac(Sgn(x.n) * q, 100)

\* correction_fields, lines 77-82: field name and max_val
correction_fields ==
    << [field |-> "distance", max_val |-> Frac(10, 100)],
       [field |-> "style",    max_val |-> Frac(10, 100)],
       [field |-> "track",    max_val |-> Frac(5, 100)],
       [field |-> "gate",     max_val |-> Frac(5, 100)] >>

\* the options of one selectbox, line 97
Options(max_val) ==
    << Round2(FMul(Num(-1), max_val)), Round2(FMul(Frac(-1, 2), max_val)),
       Round2(Zero), Round2(FMul(Frac(1, 2), max_val)), Round2(max_val) >>

\* itertools.combinations(s, 2), line 161: positions i < j in
\* lexicographic order
RECURSIVE CombFrom(_, _, _)
CombFrom(s, i, j) ==
    IF i >= Len(s) THEN <<>>
    ELSE IF j > Len(s) THEN CombFrom(s, i + 1, i + 2)
    ELSE << <<s[i], s[j]>> >> \o CombFrom(s, i, j + 1)

\* combinations whose inner index starts at the outer one
CombinationsFromSelf(s) == CombFrom(s, 1, 1)

Combinations2(s) == CombFrom(s, 1, 2)

\* df[df["name"] == h]["prob"], first value or 0.0, lines 171-175
ProbOf(t, h) ==
    LET hit == {i \in 1..Len(t["name"]) : t["name"][i] = h}
    IN  IF hit = {} THEN Zero
        ELSE t["prob"][CHOOSE i \in hit : \A k \in hit : i <= k]

\* odds_candidates, line 61
odds_candidates == <<"odds", "win", "winodds">>

\* next((col for col in odds_candidates if col in columns), None), line 62
FirstCandidate(cols) ==
    LET hit == {i \in 1..Len(odds_candidates) : odds_candidates[i] \in cols}
    IN  IF hit = {} THEN "None"
        ELSE odds_candidates[CHOOSE i \in hit : \A k \in hit : i <= k]

(* ------------------------------------------------------------------ *)
(* Inputs: uploaded files and widget values                            *)
(* ------------------------------------------------------------------ *)
Names2 == <<Text("A"), Text("B")>>

Names3 == <<Text("A"), Text("B"), Text("C")>>

\* odds cells: text that is no number, 0, and positive odds
OddsCells == {Text("--"), Num(0), Num(2), Num(10)}

OddsRows ==
    {<<c, Num(2)>> : c \in OddsCells} \cup {<<c, c>> : c \in OddsCells}
        \cup {<<Num(2), Num(4)>>}

PlaceRow == <<Frac(3, 2), Num(3)>>

\* a race table with every accepted column, cut down to a set of columns
AliasSource ==
    [name |-> Names2, odds |-> <<Num(2), Num(4)>>, win |-> <<Num(4), Num(10)>>,
     winodds |-> <<Num(10), Num(2)>>]

Restrict(t, cols) == [c \in cols |-> t[c]]

\* race tables that arrive comma-delimited
RaceTables ==
    {[name |-> Names2, odds |-> r] : r \in OddsRows}
        \cup {[name |-> Names2, odds |-> <<c, Num(2)>>, placeodds |-> PlaceRow] :
                c \in OddsCells}
        \cup {Restrict(AliasSource, {"name"} \cup a) : a \in SUBSET {"odds", "win", "winodds"}}
        \cup {Restrict(AliasSource, {"odds"})}

\* the race table that arrives tab-delimited
RaceTableTsv == [name |-> Names3, win |-> <<Num(2), Num(4), Num(10)>>]

\* rate tables that arrive comma-delimited
RateTables ==
    { [name |-> Names2, rate |-> <<Frac(6, 10), Frac(2, 10)>>],
      [name |-> <<Text("A"), Text("Z")>>, rate |-> <<Text("--"), Frac(5, 10)>>],
      [name |-> Names2],
      [rate |-> <<Frac(6, 10), Frac(2, 10)>>] }

\* the rate table that arrives tab-delimited
RateTableTsv == [name |-> <<Text("B"), Text("C"), Text("B")>>,
                 rate |-> <<Num(0), Frac(1, 2), Num(1)>>]

\* what the comma parser makes of a tab-delimited file that has no stray
\* comma: one column
Mangled == [raw |-> <<Text("A 2"), Text("B 4")>>]

\* an uploaded file: what pd.read_csv makes of it with each delimiter
\* (Unbound: the parse raises) and where its read position stands when the
\* run starts (0 when fresh, the end when an earlier run has read it)
File(c, t, p) == [comma |-> c, tab |-> t, start |-> p]

NoFile == File(Unbound, Unbound, 0)

StartPositions == {0, MaxLines}

FilesOf(tbls, tsv) ==
    {File(t, Mangled, 0) : t \in tbls}
        \cup {File(Unbound, tsv, MaxLines), File(Mangled, Unbound, 0)}
        \cup {File(Unbound, Unbound, p) : p \in StartPositions}

RaceFiles == FilesOf(RaceTables, RaceTableTsv)

RateFiles == FilesOf(RateTables, RateTableTsv)

TicketTypes == {"tan", "fuku", "umaren", "wide"}

Encodings == {"utf-8", "SHIFT_JIS"}

ParseErrors == {"ParserError", "UnicodeDecodeError"}

\* the five option positions of a selectbox; index=2 of line 98 is position 3
SelVecs ==
    {<<1, 1, 1, 1>>, <<3, 3, 3, 3>>, <<5, 5, 5, 5>>, <<1, 1, 1, 3>>, <<2, 4, 2, 4>>}

\* the selections of all rows: row -> field -> option position
Selections(n) ==
    {[i \in 1..n |-> IF i = 1 THEN v ELSE <<3, 3, 3, 3>>] : v \in SelVecs}
        \cup {[i \in 1..n |-> v] : v \in {<<1, 1, 1, 1>>, <<1, 1, 1, 3>>}}

\* bet, line 130: min_value=100, step=100
Bets == {100 * k : k \in 1..MaxBetSteps}

\* the manual (win, place) odds typed into one row, lines 145-146
ManualChoices ==
    {<<Num(-1), Num(0)>>, <<Num(0), Num(3)>>, <<Num(3), Num(-1)>>, <<Num(3), Num(3)>>}

\* the manual (umaren, wide) odds typed for one pair, lines 167-168
\* (min_value=0.0, default 0.0)
PairChoices == {<<Num(0), Num(0)>>, <<Num(5), Num(0)>>, <<Num(0), Num(5)>>}

(* ------------------------------------------------------------------ *)
(* State                                                               *)
(* ------------------------------------------------------------------ *)
VARIABLES
    pc,            \* the statement the script run stands at
    ticket_types,  \* line 37
    race_file,     \* line 45
    rate_file,     \* line 49
    pos,           \* read position of each uploaded stream, in lines
    loading,       \* the file safe_read_csv is working on
    fed,           \* lines fed to the detector, lines 10-11
    encoding,      \* line 20
    attempts,      \* the pd.read_csv calls of the current safe_read_csv
    race_df,       \* line 54
    rate_df,       \* line 55
    odds_col,      \* line 62
    df,            \* line 68
    bet,           \* line 130
    tan_input,     \* line 145, one per row
    fuku_input,    \* line 146, one per row
    t_exp,         \* line 151, one per row
    f_exp,         \* line 152, one per row
    pairs,         \* line 161
    pair_prob,     \* line 177, one per pair
    umaren_odds,   \* line 167, one per pair
    wide_odds,     \* line 168, one per pair
    uma_exp,       \* line 179, one per pair
    wide_exp,      \* line 180, one per pair
    shown,         \* what the page shows: tables, forms, errors, prompts
    error          \* the error reported (st.error) or the uncaught exception

loader == <<pos, loading, fed, encoding, attempts>>

inputs == <<ticket_types, race_file, rate_file>>

tables == <<race_df, rate_df, odds_col, df, bet>>

manual == <<tan_input, fuku_input, t_exp, f_exp>>

pairing == <<pairs, pair_prob, umaren_odds, wide_odds, uma_exp, wide_exp>>

vars == <<pc, inputs, loader, tables, manual, pairing, shown, error>>

NoError == [kind |-> "none", cause |-> "none"]

Init ==
    /\ pc = "sidebar"
    /\ ticket_types = {}
    /\ race_file = NoFile
    /\ rate_file = NoFile
    /\ pos = [race |-> 0, rate |-> 0]
    /\ loading = "none"
    /\ fed = 0
    /\ encoding = "none"
    /\ attempts = <<>>
    /\ race_df = Unbound
    /\ rate_df = Unbound
    /\ odds_col = "None"
    /\ df = Unbound
    /\ bet = 0
    /\ tan_input = <<>>
    /\ fuku_input = <<>>
    /\ t_exp = <<>>
    /\ f_exp = <<>>
    /\ pairs = <<>>
    /\ pair_prob = <<>>
    /\ umaren_odds = <<>>
    /\ wide_odds = <<>>
    /\ uma_exp = <<>>
    /\ wide_exp = <<>>
    /\ shown = {}
    /\ error = NoError

(* ------------------------------------------------------------------ *)
(* The widgets at the top of the page, lines 33-50                     *)
(* ------------------------------------------------------------------ *)
Sidebar ==
    /\ pc = "sidebar"
    /\ \E tt \in SUBSET TicketTypes, rf \in RaceFiles \cup {NoFile},
          pf \in RateFiles \cup {NoFile} :
            /\ ticket_types' = tt
            /\ race_file' = rf
            /\ rate_file' = pf
            /\ pos' = [race |-> rf.start, rate |-> pf.start]
    /\ pc' = "guard"
    /\ UNCHANGED <<loading, fed, encoding, attempts, tables, manual, pairing,
                   shown, error>>

\* if race_file and rate_file:, line 52
UploadGuard ==
    /\ pc = "guard"
    /\ IF race_file # NoFile /\ rate_file # NoFile
       THEN pc' = "detect_seek" /\ loading' = "race"
       ELSE pc' = "pairs_guard" /\ loading' = loading
    /\ UNCHANGED <<inputs, pos, fed, encoding, attempts, tables, manual,
                   pairing, shown, error>>

(* ------------------------------------------------------------------ *)
(* detect_encoding and safe_read_csv, lines 7-25                       *)
(* ------------------------------------------------------------------ *)
TheFile == IF loading = "race" THEN race_file ELSE rate_file

\* detector = UniversalDetector(); file_obj.seek(0), lines 8-9
DetectSeek ==
    /\ pc = "detect_seek"
    /\ pos' = [pos EXCEPT ![loading] = 0]
    /\ fed' = 0
    /\ pc' = "detect_feed"
    /\ UNCHANGED <<inputs, loading, encoding, attempts, tables, manual,
                   pairing, shown, error>>

\* one turn of the loop of lines 10-13: feed a line, stop on detector.done
DetectFeed ==
    /\ pc = "detect_feed"
    /\ pos[loading] < MaxLines
    /\ pos' = [pos EXCEPT ![loading] = @ + 1]
    /\ fed' = fed + 1
    /\ \E done \in BOOLEAN : pc' = IF done THEN "detect_close" ELSE "detect_feed"
    /\ UNCHANGED <<inputs, loading, encoding, attempts, tables, manual,
                   pairing, shown, error>>

\* the loop of lines 10-13 ends because the stream is exhausted
DetectExhausted ==
    /\ pc = "detect_feed"
    /\ pos[loading] >= MaxLines
    /\ pc' = "detect_close"
    /\ UNCHANGED <<inputs, loader, tables, manual, pairing, shown, error>>

\* detector.close(); file_obj.seek(0); return the encoding, lines 14-16, 20
DetectClose ==
    /\ pc = "detect_close"
    /\ pos' = [pos EXCEPT ![loading] = 0]
    /\ fed' = 0
    /\ \E enc \in Encodings : encoding' = enc
    /\ pc' = "parse_comma"
    /\ UNCHANGED <<inputs, loading, attempts, tables, manual, pairing, shown,
                   error>>

Attempt(sep, ok) == [sep |-> sep, enc |-> encoding, at |-> pos[loading], ok |-> ok]

\* safe_read_csv returns table t to line 54 or line 55
ReturnTable(t) ==
    /\ pos' = [pos EXCEPT ![loading] = MaxLines]
    /\ fed' = 0
    /\ encoding' = "none"
    /\ attempts' = <<>>
    /\ IF loading = "race"
       THEN /\ race_df' = t
            /\ rate_df' = rate_df
            /\ loading' = "rate"
            /\ pc' = "detect_seek"
       ELSE /\ rate_df' = t
            /\ race_df' = race_df
            /\ loading' = "none"
            /\ pc' = "reconcile"
    /\ UNCHANGED <<inputs, odds_col, df, bet, manual, pairing, shown, error>>

\* pd.read_csv(file_obj, encoding=encoding) succeeds, line 22
ParseCommaOk ==
    /\ pc = "parse_comma"
    /\ TheFile.comma # Unbound
    /\ ReturnTable(TheFile.comma)

\* pd.read_csv(file_obj, encoding=encoding) raises, lines 22-23; the stream
\* is left wherever the parser stopped
ParseCommaFail ==
    /\ pc = "parse_comma"
    /\ TheFile.comma = Unbound
    /\ attempts' = Append(attempts, Attempt("comma", FALSE))
    /\ \E p \in 0..MaxLines : pos' = [pos EXCEPT ![loading] = p]
    /\ pc' = "rewind"
    /\ UNCHANGED <<inputs, loading, fed, encoding, tables, manual, pairing,
                   shown, error>>

\* the except branch without its seek
RewindNoSeek ==
    /\ pc = "rewind"
    /\ pc' = "parse_tab"
    /\ UNCHANGED <<inputs, loader, tables, manual, pairing, shown, error>>

\* file_obj.seek(0) of the except branch, line 24
Rewind ==
    /\ pc = "rewind"
    /\ pos' = [pos EXCEPT ![loading] = 0]
    /\ pc' = "parse_tab"
    /\ UNCHANGED <<inputs, loading, fed, encoding, attempts, tables, manual,
                   pairing, shown, error>>

\* pd.read_csv(file_obj, encoding=encoding, sep="\t") succeeds, line 25
ParseTabOk ==
    /\ pc = "parse_tab"
    /\ TheFile.tab # Unbound
    /\ ReturnTable(TheFile.tab)

\* pd.read_csv(..., sep="\t") raises, line 25; the exception reaches the
\* except of line 56: st.error with the cause, st.stop(), lines 56-58
ParseTabFail ==
    /\ pc = "parse_tab"
    /\ TheFile.tab = Unbound
    /\ attempts' = Append(attempts, Attempt("tab", FALSE))
    /\ \E p \in 0..MaxLines : pos' = [pos EXCEPT ![loading] = p]
    /\ \E e \in ParseErrors : error' = [kind |-> "load", cause |-> e]
    /\ shown' = shown \cup {<<"error", "load">>}
    /\ pc' = "stopped"
    /\ UNCHANGED <<inputs, loading, fed, encoding, tables, manual, pairing>>

(* ------------------------------------------------------------------ *)
(* Column reconciliation and scores, lines 60-108                      *)
(* ------------------------------------------------------------------ *)
\* lines 61-66 when an odds column is found
Reconcile ==
    /\ pc = "reconcile"
    /\ FirstCandidate(DOMAIN race_df) # "None"
    /\ odds_col' = FirstCandidate(DOMAIN race_df)
    /\ race_df' = WithCol(race_df, "winodds", Map1(ToNumeric, race_df[odds_col']))
    /\ pc' = "score"
    /\ UNCHANGED <<inputs, loader, rate_df, df, bet, manual, pairing, shown, error>>

\* lines 61-65 when no odds column is found: st.error, st.stop()
ReconcileMissing ==
    /\ pc = "reconcile"
    /\ FirstCandidate(DOMAIN race_df) = "None"
    /\ odds_col' = "None"
    /\ error' = [kind |-> "odds_column", cause |-> "none"]
    /\ shown' = shown \cup {<<"error", "odds_column">>}
    /\ pc' = "stopped"
    /\ UNCHANGED <<inputs, loader, race_df, rate_df, df, bet, manual, pairing>>

\* rate_df.set_index("name")["rate"].to_dict(), line 69: of two rows with
\* one name the later one stays
RateMap(t) ==
    LET keys == {t["name"][i] : i \in 1..Len(t["name"])}
        last(k) == CHOOSE i \in 1..Len(t["name"]) :
                      /\ t["name"][i] = k
                      /\ \A j \in 1..Len(t["name"]) : t["name"][j] = k => j <= i
    IN  [k \in keys |-> t["rate"][last(k)]]

\* Series.map(rate_map), line 72: NaN for a name the map lacks
MapRate(names, rate_map) ==
    [i \in 1..Len(names) |->
        IF names[i] \in DOMAIN rate_map THEN rate_map[names[i]] ELSE NaN]

\* 1 / df["winodds"], line 71
Popularity(odds) == [i \in 1..Len(odds) |-> FDiv(Num(1), odds[i])]

\* lines 72-73
PlaceRateScore(names, rate_map) ==
    [i \in 1..Len(names) |-> FillNa(ToNumeric(MapRate(names, rate_map)[i]), Zero)]

\* lines 68-73
Score ==
    /\ pc = "score"
    /\ {"name", "rate"} \subseteq DOMAIN rate_df
    /\ "name" \in DOMAIN race_df
    /\ df' = WithCol(WithCol(race_df, "pop", Popularity(race_df["winodds"])),
                     "ratescore", PlaceRateScore(race_df["name"], RateMap(rate_df)))
    /\ pc' = "corrections"
    /\ UNCHANGED <<inputs, loader, race_df, rate_df, odds_col, bet, manual,
                   pairing, shown, error>>

\* lines 68-72 when a column is not there: rate_df["name"] or rate_df["rate"]
\* at line 69, df["name"] at line 72 raise KeyError, which nothing catches
ScoreKeyError ==
    /\ pc = "score"
    /\ ~({"name", "rate"} \subseteq DOMAIN rate_df /\ "name" \in DOMAIN race_df)
    /\ df' = IF {"name", "rate"} \subseteq DOMAIN rate_df
             THEN WithCol(race_df, "pop", Popularity(race_df["winodds"]))
             ELSE race_df
    /\ error' = [kind |-> "uncaught", cause |-> "KeyError"]
    /\ pc' = "crashed"
    /\ UNCHANGED <<inputs, loader, race_df, rate_df, odds_col, bet, manual,
                   pairing, shown>>

\* the column of field f: the option each row's selectbox holds, lines 91-104
CorrectionColumn(f, sel) ==
    [i \in 1..Len(sel) |-> Options(correction_fields[f].max_val)[sel[i][f]]]

RECURSIVE WithCorrections(_, _, _)
WithCorrections(t, sel, f) ==
    IF f = 0 THEN t
    ELSE WithCol(WithCorrections(t, sel, f - 1), correction_fields[f].field,
                 CorrectionColumn(f, sel))

\* lines 75-104
Corrections ==
    /\ pc = "corrections"
    /\ \E sel \in Selections(NRows(df)) :
          df' = WithCorrections(df, sel, Len(correction_fields))
    /\ shown' = shown \cup {<<"form", "corrections">>}
    /\ pc' = "composite"
    /\ UNCHANGED <<inputs, loader, race_df, rate_df, odds_col, bet, manual,
                   pairing, error>>

\* df[[...]].sum(axis=1), line 106
CorrectionScore(t) ==
    [i \in 1..NRows(t) |->
        SeriesSum([f \in 1..Len(correction_fields) |-> t[correction_fields[f].field][i]])]

\* line 107
CompositeScore(pop, rate, corr) ==
    [i \in 1..Len(pop) |->
        FAdd(FAdd(FMul(pop[i], Frac(5, 10)), FMul(rate[i], Frac(3, 10))),
             FMul(corr[i], Frac(2, 10)))]

\* lines 106-108
Composite ==
    /\ pc = "composite"
    /\ LET corr == CorrectionScore(df)
           total == CompositeScore(df["pop"], df["ratescore"], corr)
       IN  df' = WithCol(WithCol(WithCol(df, "corr", corr), "total", total),
                         "prob", normalize(total))
    /\ pc' = "ev"
    /\ UNCHANGED <<inputs, loader, race_df, rate_df, odds_col, bet, manual,
                   pairing, shown, error>>

(* ------------------------------------------------------------------ *)
(* Expected values and payouts, lines 110-155                          *)
(* ------------------------------------------------------------------ *)
\* f"{t}期待値" and f"{t}払戻期待値"
EvCol(t) ==
    CASE t = "tan" -> "tan_ev" [] t = "fuku" -> "fuku_ev"
      [] t = "umaren" -> "umaren_ev" [] t = "wide" -> "wide_ev"

PayCol(t) ==
    CASE t = "tan" -> "tan_payout" [] t = "fuku" -> "fuku_payout"
      [] t = "umaren" -> "umaren_payout" [] t = "wide" -> "wide_payout"

Times(a, b) == [i \in 1..Len(a) |-> FMul(a[i], b[i])]

Scaled(a, k) == [i \in 1..Len(a) |-> FMul(a[i], Num(k))]

\* lines 111-114
WithExpectedValues(t, tt) ==
    LET t1 == IF "tan" \in tt
              THEN WithCol(t, "tan_ev", Times(t["winodds"], t["prob"])) ELSE t
    IN  IF "fuku" \in tt /\ "placeodds" \in DOMAIN t
        THEN WithCol(t1, "fuku_ev", Times(t["placeodds"], t["prob"])) ELSE t1

\* lines 110-126: the columns, then one table per bet type that has one
ExpectedValue ==
    /\ pc = "ev"
    /\ df' = WithExpectedValues(df, ticket_types)
    /\ shown' = shown \cup {<<"ev", t>> : t \in {u \in ticket_types : EvCol(u) \in DOMAIN df'}}
    /\ pc' = "payout"
    /\ UNCHANGED <<inputs, loader, race_df, rate_df, odds_col, bet, manual,
                   pairing, error>>

\* the loop of lines 131-136 over a set of bet types
RECURSIVE WithPayouts(_, _, _)
WithPayouts(t, tt, b) ==
    IF tt = {} THEN t
    ELSE LET u == CHOOSE x \in tt : TRUE
             rest == WithPayouts(t, tt \ {u}, b)
         IN  IF EvCol(u) \in DOMAIN t
             THEN WithCol(rest, PayCol(u), Scaled(t[EvCol(u)], b)) ELSE rest

\* lines 128-136
Payout ==
    /\ pc = "payout"
    /\ \E b \in Bets :
          /\ bet' = b
          /\ df' = WithPayouts(df, ticket_types, b)
    /\ shown' = shown \cup {<<"payout", t>> : t \in {u \in ticket_types : EvCol(u) \in DOMAIN df}}
    /\ pc' = "manual"
    /\ UNCHANGED <<inputs, loader, race_df, rate_df, odds_col, manual, pairing,
                   error>>

\* odds * prob if odds > 0 else 0, lines 151-152 and 179-180
ExpOrZero(odds, prob) == IF FGt(odds, Zero) THEN FMul(odds, prob) ELSE Zero

\* the loop of lines 141-155; every row's two number inputs hold what the
\* user typed
ManualOdds ==
    /\ pc = "manual"
    /\ \E m \in ManualChoices :
          LET n == NRows(df)
          IN  /\ tan_input' = [i \in 1..n |-> m[1]]
              /\ fuku_input' = [i \in 1..n |-> m[2]]
              /\ df' = WithCol(WithCol(df, "winodds", [i \in 1..n |-> m[1]]),
                               "placeodds", [i \in 1..n |-> m[2]])
              /\ t_exp' = [i \in 1..n |-> ExpOrZero(m[1], df["prob"][i])]
              /\ f_exp' = [i \in 1..n |-> ExpOrZero(m[2], df["prob"][i])]
    /\ shown' = shown \cup {<<"form", "manual">>}
    /\ pc' = "pairs_guard"
    /\ UNCHANGED <<inputs, loader, race_df, rate_df, odds_col, bet, pairing,
                   error>>

(* ------------------------------------------------------------------ *)
(* Paired bet types, lines 157-187                                     *)
(* ------------------------------------------------------------------ *)
Paired == {"umaren", "wide"}

\* lines 158-183 with df bound
Pairs ==
    /\ pc = "pairs_guard"
    /\ ticket_types \cap Paired # {}
    /\ df # Unbound
    /\ LET ps == Combinations2(df["name"])
           pp == [i \in 1..Len(ps) |->
                    FMul(FMul(ProbOf(df, ps[i][1]), ProbOf(df, ps[i][2])), Num(2))]
       IN  /\ pairs' = ps
           /\ pair_prob' = pp
           /\ \E c \in PairChoices :
                 /\ umaren_odds' = [i \in 1..Len(ps) |-> c[1]]
                 /\ wide_odds' = [i \in 1..Len(ps) |-> c[2]]
                 /\ uma_exp' = [i \in 1..Len(ps) |-> ExpOrZero(c[1], pp[i])]
                 /\ wide_exp' = [i \in 1..Len(ps) |-> ExpOrZero(c[2], pp[i])]
    /\ shown' = shown \cup {<<"form", "pairs">>}
    /\ pc' = "done"
    /\ UNCHANGED <<inputs, loader, tables, manual, error>>

\* line 160 with df never assigned: NameError, which nothing catches
PairsNameError ==
    /\ pc = "pairs_guard"
    /\ ticket_types \cap Paired # {}
    /\ df = Unbound
    /\ shown' = shown \cup {<<"form", "pairs">>}
    /\ error' = [kind |-> "uncaught", cause |-> "NameError"]
    /\ pc' = "crashed"
    /\ UNCHANGED <<inputs, loader, tables, manual, pairing>>

\* the else of line 186: st.info asking for both uploads
UploadPrompt ==
    /\ pc = "pairs_guard"
    /\ ticket_types \cap Paired = {}
    /\ shown' = shown \cup {<<"info", "upload">>}
    /\ pc' = "done"
    /\ UNCHANGED <<inputs, loader, tables, manual, pairing, error>>

\* any interaction starts the script again from its first line
Rerun ==
    /\ pc \in {"done", "stopped", "crashed"}
    /\ pc' = "sidebar"
    /\ ticket_types' = {}
    /\ race_file' = NoFile
    /\ rate_file' = NoFile
    /\ pos' = [race |-> 0, rate |-> 0]
    /\ loading' = "none"
    /\ fed' = 0
    /\ encoding' = "none"
    /\ attempts' = <<>>
    /\ race_df' = Unbound
    /\ rate_df' = Unbound
    /\ odds_col' = "None"
    /\ df' = Unbound
    /\ bet' = 0
    /\ tan_input' = <<>>
    /\ fuku_input' = <<>>
    /\ t_exp' = <<>>
    /\ f_exp' = <<>>
    /\ pairs' = <<>>
    /\ pair_prob' = <<>>
    /\ umaren_odds' = <<>>
    /\ wide_odds' = <<>>
    /\ uma_exp' = <<>>
    /\ wide_exp' = <<>>
    /\ shown' = {}
    /\ error' = NoError

Next ==
    \/ Sidebar
    \/ UploadGuard
    \/ DetectSeek
    \/ DetectFeed
    \/ DetectExhausted
    \/ DetectClose
    \/ ParseCommaOk
    \/ ParseCommaFail
    \/ Rewind
    \/ ParseTabOk
    \/ ParseTabFail
    \/ Reconcile
    \/ ReconcileMissing
    \/ Score
    \/ ScoreKeyError
    \/ Corrections
    \/ Composite
    \/ ExpectedValue
    \/ Payout
    \/ ManualOdds
    \/ Pairs
    \/ PairsNameError
    \/ UploadPrompt
    \/ Rerun

Spec == Init /\ [][Next]_vars

(* ------------------------------------------------------------------ *)
(* The pair stage on entrant lists of any names                        *)
(* ------------------------------------------------------------------ *)
PoolNames == <<"A", "B", "C", "D", "E", "F">>

NamePool == {Text(PoolNames[i]) : i \in 1..MaxNames}

NameLists == UNION {[1..k -> NamePool] : k \in 0..MaxNames}

\* the script stands before line 158 with a scored table of any entrant list
InitPairs ==
    /\ pc = "pairs_guard"
    /\ ticket_types \in (SUBSET Paired) \ {{}}
    /\ race_file = NoFile
    /\ rate_file = NoFile
    /\ pos = [race |-> 0, rate |-> 0]
    /\ loading = "none"
    /\ fed = 0
    /\ encoding = "none"
    /\ attempts = <<>>
    /\ race_df = Unbound
    /\ rate_df = Unbound
    /\ odds_col = "None"
    /\ \E h \in NameLists :
          df = [name |-> h, prob |-> [i \in 1..Len(h) |-> Frac(1, Len(h))]]
    /\ bet = 0
    /\ tan_input = <<>>
    /\ fuku_input = <<>>
    /\ t_exp = <<>>
    /\ f_exp = <<>>
    /\ pairs = <<>>
    /\ pair_prob = <<>>
    /\ umaren_odds = <<>>
    /\ wide_odds = <<>>
    /\ uma_exp = <<>>
    /\ wide_exp = <<>>
    /\ shown = {}
    /\ error = NoError

NextPairs == Pairs

SpecPairs == InitPairs /\ [][NextPairs]_vars

(* ------------------------------------------------------------------ *)
(* Properties                                                          *)
(* ------------------------------------------------------------------ *)
\* equality of two floats: NaN equals nothing
FEq(x, y) == ~IsNaN(x) /\ ~IsNaN(y) /\ x = y

\* the sum of all entries, NaN if any entry is NaN
RECURSIVE PlainSum(_)
PlainSum(s) == IF s = <<>> THEN Zero ELSE FAdd(Head(s), PlainSum(Tail(s)))

Rows(t) == 1..NRows(t)

\* the composite scores and probabilities of this run have been computed
Scored == df # Unbound /\ {"total", "prob"} \subseteq DOMAIN df

BothUploaded == race_file # NoFile /\ rate_file # NoFile

\* the win odds after coercion, as line 66 left them
CoercedOdds == race_df["winodds"]

\* C1: whenever the sum of the composite scores is strictly positive, each
\* entrant's probability is its composite score divided by that sum and the
\* probabilities sum to 1, also when an entrant's win odds are 0 or missing.
C1_SimplexNormalization ==
    (Scored /\ FGt(SeriesSum(df["total"]), Zero)) =>
        /\ \A i \in Rows(df) :
              /\ IsFin(df["prob"][i])
              /\ FEq(df["prob"][i], FDiv(df["total"][i], SeriesSum(df["total"])))
        /\ FEq(PlainSum(df["prob"]), Num(1))

\* C2: whenever the sum of the composite scores is zero or negative, every
\* entrant's probability is its composite score, unchanged, and the run has
\* raised nothing.
C2_DegenerateIdentity ==
    (Scored /\ FGe(Zero, SeriesSum(df["total"]))) =>
        /\ \A i \in Rows(df) : df["prob"][i] = df["total"][i]
        /\ error = NoError

\* C2 witness: a scored table whose composite scores are finite and sum to
\* a negative number, the probabilities being those scores.
C2_Witness ==
    /\ Scored
    /\ FGt(Zero, SeriesSum(df["total"]))
    /\ \A i \in Rows(df) : IsFin(df["total"][i]) /\ FGt(Zero, df["prob"][i])

\* C3: an entrant whose win odds are 0 or missing has popularity score 0,
\* and its composite score and probability are finite.
C3_ZeroOrMissingOdds ==
    (df # Unbound /\ "pop" \in DOMAIN df) =>
        \A i \in Rows(df) :
            (IsNaN(CoercedOdds[i]) \/ IsZero(CoercedOdds[i])) =>
                /\ df["pop"][i] = Zero
                /\ Scored => IsFin(df["total"][i]) /\ IsFin(df["prob"][i])

\* C4: whenever the composite-score total is strictly positive, all win
\* odds are positive and all place-rates lie in [0,1], every entrant's
\* probability is non-negative.
C4_NonNegativeProbability ==
    ( /\ Scored
      /\ FGt(SeriesSum(df["total"]), Zero)
      /\ \A i \in Rows(df) :
            /\ IsFin(CoercedOdds[i]) /\ FGt(CoercedOdds[i], Zero)
            /\ FGe(df["ratescore"][i], Zero) /\ FGe(Num(1), df["ratescore"][i]) ) =>
        \A i \in Rows(df) : FGe(df["prob"][i], Zero)

Unique(h) == \A i, j \in 1..Len(h) : h[i] = h[j] => i = j

PosOf(h, x) == CHOOSE i \in 1..Len(h) : h[i] = x

\* the pair stage has run on the scored table
PairsDone == pc = "done" /\ df # Unbound /\ ticket_types \cap Paired # {}

\* C5: for n uniquely named entrants the pair stage yields n(n-1)/2 pairs,
\* every two distinct entrants exactly once, no entrant with itself, no pair
\* in both orders, in the order of the positions in the entrant list.
C5_PairEnumeration ==
    (PairsDone /\ Unique(df["name"])) =>
        LET h == df["name"]
            n == Len(h)
            first(k) == PosOf(h, pairs[k][1])
            second(k) == PosOf(h, pairs[k][2])
        IN  /\ 2 * Len(pairs) = n * (n - 1)
            /\ \A k \in 1..Len(pairs) : first(k) < second(k)
            /\ \A i, j \in 1..n : i < j =>
                  Cardinality({k \in 1..Len(pairs) :
                                  {pairs[k][1], pairs[k][2]} = {h[i], h[j]}}) = 1
            /\ \A k, l \in 1..Len(pairs) : k < l =>
                  \/ first(k) < first(l)
                  \/ first(k) = first(l) /\ second(k) < second(l)

\* C5 witness: the pair stage has run on entrants A, B, C and made the
\* pairs (A,B), (A,C), (B,C).
C5_Witness ==
    /\ PairsDone
    /\ df["name"] = Names3
    /\ pairs = << <<Text("A"), Text("B")>>, <<Text("A"), Text("C")>>,
                  <<Text("B"), Text("C")>> >>

\* every score of the table is a finite number
FiniteScores == \A i \in Rows(df) : IsFin(df["total"][i]) /\ IsFin(df["prob"][i])

\* C6: manual odds of 0 or less give expected value 0 and expected payout 0
\* for that entrant (win and place) or pair (both paired bet types); stated
\* for the runs whose scores are all finite, where no missing marker is in
\* play.
C6_NonPositiveManualOdds ==
    /\ (Scored /\ FiniteScores /\ tan_input # <<>>) =>
          \A i \in Rows(df) :
              /\ ~FGt(tan_input[i], Zero) =>
                    /\ t_exp[i] = Zero
                    /\ "tan_payout" \in DOMAIN df => df["tan_payout"][i] = Zero
              /\ ~FGt(fuku_input[i], Zero) =>
                    /\ f_exp[i] = Zero
                    /\ "fuku_payout" \in DOMAIN df => df["fuku_payout"][i] = Zero
    /\ PairsDone =>
          \A k \in 1..Len(pairs) :
              /\ ~FGt(umaren_odds[k], Zero) => uma_exp[k] = Zero
              /\ ~FGt(wide_odds[k], Zero) => wide_exp[k] = Zero

\* C7: a run that loaded both tables and reconciled the odds column has,
\* for every requested bet type, an expected value and an expected payout
\* that is the expected value times the stake: per entrant for win and
\* place, per pair for the paired types.
C7_PayoutPerBetType ==
    (pc = "done" /\ Scored) =>
        \A t \in ticket_types :
            /\ <<"payout", t>> \in shown
            /\ t \notin Paired =>
                  /\ {EvCol(t), PayCol(t)} \subseteq DOMAIN df
                  /\ \A i \in Rows(df) :
                        df[PayCol(t)][i] = FMul(df[EvCol(t)][i], Num(bet))
            /\ t \in Paired => Len(uma_exp) = Len(pairs) /\ Len(wide_exp) = Len(pairs)

\* what safe_read_csv returns for a file: the comma parse if it succeeds,
\* else the tab parse
Parsed(f) == IF f.comma # Unbound THEN f.comma ELSE f.tab

FailedAt0(a, sep) == a.sep = sep /\ a.at = 0 /\ ~a.ok

\* C8: the stream stands at 0 when detection starts feeding and when it
\* has ended; the comma parse comes first; the tab parse comes only after a
\* failed comma parse and a rewind to 0, with the same encoding; when both
\* fail the load error with its cause is shown, the run stops and it has
\* made no table of scores and shows no result.
C8_LoadOrder ==
    /\ pc = "detect_feed" => pos[loading] = fed
    /\ pc \in {"parse_comma", "parse_tab"} => pos[loading] = 0
    /\ pc = "parse_comma" => attempts = <<>>
    /\ pc \in {"rewind", "parse_tab"} =>
          /\ Len(attempts) = 1
          /\ FailedAt0(attempts[1], "comma")
          /\ attempts[1].enc = encoding
    /\ Len(attempts) = 2 =>
          /\ FailedAt0(attempts[1], "comma")
          /\ FailedAt0(attempts[2], "tab")
          /\ attempts[2].enc = attempts[1].enc
          /\ pc = "stopped"
          /\ error.kind = "load"
          /\ error.cause \in ParseErrors
          /\ shown = {<<"error", "load">>}
          /\ df = Unbound
          /\ (IF loading = "race" THEN race_df ELSE rate_df) = Unbound
          /\ t_exp = <<>> /\ f_exp = <<>> /\ pairs = <<>>
    /\ error.kind = "load" => Len(attempts) = 2
    /\ pc = "reconcile" =>
          race_df = Parsed(race_file) /\ rate_df = Parsed(rate_file)

\* C8 witness: the race table came in through the tab parse, then both
\* parses of the rate file failed and the run stopped on the load error.
C8_Witness ==
    /\ pc = "stopped"
    /\ error.kind = "load"
    /\ loading = "rate"
    /\ race_df = RaceTableTsv
    /\ race_file.comma = Unbound
    /\ Len(attempts) = 2

RaceNeeds == "name" \in DOMAIN race_df /\ FirstCandidate(DOMAIN race_df) # "None"

RateNeeds == {"name", "rate"} \subseteq DOMAIN rate_df

Loaded == race_df # Unbound /\ rate_df # Unbound

\* C9: with both tables loaded, a run in which the race table lacks the
\* name column or every odds alias, or the rate table lacks its name or
\* rate column, never gets past the column checks and ends in the
\* missing-column error with no results; otherwise the first alias present,
\* in the order odds, win, win odds, is the canonical odds column.
C9_MissingColumn ==
    /\ (Loaded /\ pc \notin {"reconcile", "score"} /\ ~(RaceNeeds /\ RateNeeds)) =>
          /\ pc = "stopped"
          /\ error.kind = "odds_column"
          /\ df = Unbound
    /\ (Loaded /\ pc # "reconcile"
            /\ DOMAIN Parsed(race_file) \cap {"odds", "win", "winodds"} # {}) =>
          LET cols == DOMAIN Parsed(race_file)
          IN  /\ odds_col \in cols
              /\ odds_col = "win" => "odds" \notin cols
              /\ odds_col = "winodds" => "odds" \notin cols /\ "win" \notin cols
              /\ CoercedOdds = Map1(ToNumeric, Parsed(race_file)[odds_col])

\* C10: the pair stage never reads an entrant table that this run has not
\* computed, and a finished run shows the upload prompt exactly when not
\* both tables are uploaded.
C10_PairStageGuard ==
    /\ error.cause # "NameError"
    /\ pc = "done" => (<<"info", "upload">> \in shown <=> ~BothUploaded)

====
